---- MODULE Spec2Model ----
(***************************************************************************)
(* Registration, e-mail verification, login and password reset flows of    *)
(* app.py, over the two Supabase tables 'users' and                        *)
(* 'pending_registrations', the itsdangerous URLSafeTimedSerializer and    *)
(* the Flask session.                                                      *)
(*                                                                         *)
(* Strings that the code inspects (emails, usernames, passwords) are       *)
(* sequences of one-character strings.  A value that is either None or a   *)
(* row is a sequence of length 0 or 1.  A table is the sequence of its     *)
(* rows in insertion order.  The schema of the tables is not part of the  *)
(* source: a table accepts any row, and every store call may raise, an     *)
(* insert that the store rejects included.                                 *)
(***************************************************************************)
EXTENDS Integers, Sequences, FiniteSets, TLC

VARIABLES users, pending, mailbox, redeemed, session, now, steps, last, inflight

vars == <<users, pending, mailbox, redeemed, session, now, steps, last, inflight>>

-----------------------------------------------------------------------------
(* Bound of the model: the number of requests and clock changes followed *)

MaxSteps == 6

(* Bounds of the passwords given to validate_password on its own: the     *)
(* length of the freely chosen part, and of the run of one character that *)
(* follows it                                                             *)

MaxCore == 4
MaxPad == 18

(* Program constants *)

MAX_AGE == 3600
HOUR == 3600
MIN_USERNAME == 3
MIN_PASSWORD == 8
MAX_PASSWORD == 20

-----------------------------------------------------------------------------
(* Inputs *)

EmailA == <<"a", "@", "x">>
EmailB == <<"b", "@", "x">>
EmailNoAt == <<"a", "x">>
EmailInputs == {EmailA, EmailNoAt}

Roles == {"kasir", "akuntan", "owner", "karyawan"}
RoleInputs == {"owner", "admin"}

Alice == <<"a", "l", "i">>
Bob == <<"b", "o", "b">>
UsernameInputs == {Alice, Bob, <<"a", "l">>}

PwGood == <<"A", "b", "c", "d", "e", "f", "1", "!">>
PwGood2 == <<"Z", "y", "x", "w", "v", "u", "9", "?">>
PwShort == <<"a", "b", "c">>
PasswordInputs == {PwGood, PwGood2, PwShort}
NewPasswordInputs == {PwGood, PwShort}

Slots == {1, 2}

-----------------------------------------------------------------------------
(* Character classes of the regular expressions in validate_password *)

UpperChars == {"A", "B", "C", "D", "E", "F", "G", "H", "I", "J", "K", "L", "M",
               "N", "O", "P", "Q", "R", "S", "T", "U", "V", "W", "X", "Y", "Z"}
LowerChars == {"a", "b", "c", "d", "e", "f", "g", "h", "i", "j", "k", "l", "m",
               "n", "o", "p", "q", "r", "s", "t", "u", "v", "w", "x", "y", "z"}
DigitChars == {"0", "1", "2", "3", "4", "5", "6", "7", "8", "9"}
SpecialChars == {"!", "@", "#", "$", "%", "^", "&", "*", "(", ")", ",", ".",
                 "?", "\"", ":", "{", "}", "|", "<", ">"}

Contains(s, class) == \E i \in DOMAIN s : s[i] \in class

(* validate_password as it would be if it accepted every password *)
validate_password_AcceptsAll(password) == [ok |-> TRUE, message |-> "Password valid"]

validate_password_NoUpperBound(password) ==
  IF Len(password) < MIN_PASSWORD
    THEN [ok |-> FALSE, message |-> "Password harus 8-20 karakter"]
  ELSE IF ~Contains(password, UpperChars)
    THEN [ok |-> FALSE, message |-> "Password harus mengandung huruf besar"]
  ELSE IF ~Contains(password, LowerChars)
    THEN [ok |-> FALSE, message |-> "Password harus mengandung huruf kecil"]
  ELSE IF ~Contains(password, DigitChars)
    THEN [ok |-> FALSE, message |-> "Password harus mengandung angka"]
  ELSE IF ~Contains(password, SpecialChars)
    THEN [ok |-> FALSE,
          message |-> "Password harus mengandung karakter khusus (!@#$%^&*...)"]
  ELSE [ok |-> TRUE, message |-> "Password valid"]

validate_password(password) ==
  IF Len(password) < MIN_PASSWORD \/ Len(password) > MAX_PASSWORD
    THEN [ok |-> FALSE, message |-> "Password harus 8-20 karakter"]
  ELSE IF ~Contains(password, UpperChars)
    THEN [ok |-> FALSE, message |-> "Password harus mengandung huruf besar"]
  ELSE IF ~Contains(password, LowerChars)
    THEN [ok |-> FALSE, message |-> "Password harus mengandung huruf kecil"]
  ELSE IF ~Contains(password, DigitChars)
    THEN [ok |-> FALSE, message |-> "Password harus mengandung angka"]
  ELSE IF ~Contains(password, SpecialChars)
    THEN [ok |-> FALSE,
          message |-> "Password harus mengandung karakter khusus (!@#$%^&*...)"]
  ELSE [ok |-> TRUE, message |-> "Password valid"]

-----------------------------------------------------------------------------
(* werkzeug password hashing: a hash validates exactly the password it was *)
(* generated from.                                                         *)

generate_password_hash(password) == [method |-> "pbkdf2", of |-> password]

check_password_hash_AcceptsAny(pwhash, password) == TRUE

check_password_hash(pwhash, password) == pwhash.of = password

-----------------------------------------------------------------------------
(* URLSafeTimedSerializer: a token carries its payload and its issuance    *)
(* second, and is signed under a key derived from the salt.                *)

NoToken == [payload |-> <<>>, salt |-> "none", ts |-> 0]
ForgedToken == [payload |-> EmailA, salt |-> "forged", ts |-> 0]

dumps(payload, salt) == [payload |-> payload, salt |-> salt, ts |-> now]

loads_NoExpiry(token, salt, max_age) ==
  IF token.salt # salt
    THEN [ok |-> FALSE, error |-> "BadSignature", email |-> <<>>]
    ELSE [ok |-> TRUE, error |-> "", email |-> token.payload]

loads_LateByOne(token, salt, max_age) ==
  IF token.salt # salt
    THEN [ok |-> FALSE, error |-> "BadSignature", email |-> <<>>]
  ELSE IF now - token.ts - 1 > max_age
    THEN [ok |-> FALSE, error |-> "SignatureExpired", email |-> <<>>]
  ELSE [ok |-> TRUE, error |-> "", email |-> token.payload]

loads_AnySalt(token, salt, max_age) ==
  IF token.salt \notin {"email-verification", "password-reset"}
    THEN [ok |-> FALSE, error |-> "BadSignature", email |-> <<>>]
  ELSE IF now - token.ts > max_age
    THEN [ok |-> FALSE, error |-> "SignatureExpired", email |-> <<>>]
  ELSE [ok |-> TRUE, error |-> "", email |-> token.payload]

loads(token, salt, max_age) ==
  IF token.salt # salt
    THEN [ok |-> FALSE, error |-> "BadSignature", email |-> <<>>]
  ELSE IF now - token.ts > max_age
    THEN [ok |-> FALSE, error |-> "SignatureExpired", email |-> <<>>]
  ELSE [ok |-> TRUE, error |-> "", email |-> token.payload]

TokenInputs == mailbox \cup {ForgedToken}

-----------------------------------------------------------------------------
(* Database functions.  Every store call may raise; the flag `raises` says *)
(* whether it does in this request.  A select without ORDER BY may return  *)
(* the matching rows in any order, so a lookup yields the set of values    *)
(* data[0] can take.                                                       *)

Matching(table, field, value) ==
  {i \in DOMAIN table : table[i][field] = value}

get_user_by_email(email, raises) ==
  IF raises \/ Matching(users, "email", email) = {}
    THEN {<<>>}
    ELSE {<<users[i]>> : i \in Matching(users, "email", email)}

(* get_user_by_username as it would be if the lookup matched no row *)
get_user_by_username_NeverFinds(username, raises) == {<<>>}

get_user_by_username(username, raises) ==
  IF raises \/ Matching(users, "username", username) = {}
    THEN {<<>>}
    ELSE {<<users[i]>> : i \in Matching(users, "username", username)}

get_pending_registration(email, raises) ==
  IF raises \/ Matching(pending, "email", email) = {}
    THEN {<<>>}
    ELSE {<<pending[i]>> : i \in Matching(pending, "email", email)}

DeleteWhere(table, field, value) ==
  SelectSeq(table, LAMBDA row : row[field] # value)

(* create_pending_registration as it would be with an advisory expiry of   *)
(* half an hour                                                            *)
create_pending_registration_HalfHour(email, role, token, deleteRaises, insertRaises) ==
  IF deleteRaises
    THEN [table |-> pending, row |-> <<>>]
  ELSE IF insertRaises
    THEN [table |-> DeleteWhere(pending, "email", email), row |-> <<>>]
  ELSE LET data == [email |-> email, role |-> role, token |-> token,
                    expires_at |-> now + 1800]
       IN [table |-> Append(DeleteWhere(pending, "email", email), data),
           row |-> <<data>>]

create_pending_registration_KeepsOld(email, role, token, deleteRaises, insertRaises) ==
  IF deleteRaises \/ insertRaises
    THEN [table |-> pending, row |-> <<>>]
  ELSE LET data == [email |-> email, role |-> role, token |-> token,
                    expires_at |-> now + HOUR]
       IN [table |-> Append(pending, data), row |-> <<data>>]

create_pending_registration(email, role, token, deleteRaises, insertRaises) ==
  IF deleteRaises
    THEN [table |-> pending, row |-> <<>>]
  ELSE IF insertRaises
    THEN [table |-> DeleteWhere(pending, "email", email), row |-> <<>>]
  ELSE LET data == [email |-> email, role |-> role, token |-> token,
                    expires_at |-> now + HOUR]
       IN [table |-> Append(DeleteWhere(pending, "email", email), data),
           row |-> <<data>>]

delete_pending_registration_Skipped(email, raises) ==
  [table |-> pending, ok |-> ~raises]

delete_pending_registration(email, raises) ==
  IF raises
    THEN [table |-> pending, ok |-> FALSE]
    ELSE [table |-> DeleteWhere(pending, "email", email), ok |-> TRUE]

create_user_DefaultRole(email, username, password, role, raises) ==
  IF raises
    THEN [table |-> users, row |-> <<>>]
  ELSE LET data == [email |-> email, username |-> username,
                    password_hash |-> generate_password_hash(password),
                    role |-> "owner"]
       IN [table |-> Append(users, data), row |-> <<data>>]

create_user(email, username, password, role, raises) ==
  IF raises
    THEN [table |-> users, row |-> <<>>]
  ELSE LET data == [email |-> email, username |-> username,
                    password_hash |-> generate_password_hash(password),
                    role |-> role]
       IN [table |-> Append(users, data), row |-> <<data>>]

update_user_password_Unsaved(email, new_password, raises) ==
  IF raises
    THEN [table |-> users, row |-> <<>>]
  ELSE LET hit == Matching(users, "email", email)
       IN [table |-> users,
           row |-> IF hit = {} THEN <<>>
                   ELSE <<users[CHOOSE i \in hit : \A j \in hit : i <= j]>>]

update_user_password_AllRows(email, new_password, raises) ==
  IF raises
    THEN [table |-> users, row |-> <<>>]
  ELSE LET hit == Matching(users, "email", email)
           updated == [i \in DOMAIN users |->
                         [users[i] EXCEPT !.password_hash =
                            generate_password_hash(new_password)]]
       IN [table |-> updated,
           row |-> IF hit = {} THEN <<>>
                   ELSE <<updated[CHOOSE i \in hit : \A j \in hit : i <= j]>>]

update_user_password(email, new_password, raises) ==
  IF raises
    THEN [table |-> users, row |-> <<>>]
  ELSE LET hit == Matching(users, "email", email)
           updated == [i \in DOMAIN users |->
                         IF i \in hit
                           THEN [users[i] EXCEPT !.password_hash =
                                   generate_password_hash(new_password)]
                           ELSE users[i]]
       IN [table |-> updated,
           row |-> IF hit = {} THEN <<>>
                   ELSE <<updated[CHOOSE i \in hit : \A j \in hit : i <= j]>>]

-----------------------------------------------------------------------------
(* Flashed messages, named by their kind *)

InvalidInput == "Email tidak valid!"
DuplicateEmail == "Email sudah terdaftar!"
PendingNotSaved == "Gagal menyimpan data registrasi!"
VerificationSent == "Email verifikasi telah dikirim! Cek inbox Anda."
EmailDispatchFailed == "Gagal mengirim email"
VerifyExpired == "Link verifikasi sudah expired!"
VerifyInvalid == "Link verifikasi tidak valid!"
PendingNotFound == "Data pendaftaran tidak ditemukan!"
InvalidUsername == "Username minimal 3 karakter!"
UsernameTaken == "Username sudah digunakan!"
PasswordMismatch == "Password tidak cocok!"
AccountNotCreated == "Gagal membuat akun! Coba lagi."
RegistrationDone == "Registrasi berhasil! Silakan login."
InvalidCredentials == "Username atau password salah!"
EmailNotFound == "Email tidak terdaftar!"
ResetSent == "Link reset password telah dikirim ke email Anda!"
ResetExpired == "Link reset password sudah expired!"
ResetInvalid == "Link reset password tidak valid!"
ResetDone == "Password berhasil direset! Silakan login."
ResetNotDone == "Gagal reset password! Coba lagi."
LoginRequired == "Silakan login terlebih dahulu!"
LoggedOut == "Anda telah logout!"
NoFlash == ""

(* What the last request was and how it was answered: the route, the      *)
(* token it carried or issued, the role and the form fields it submitted  *)
(* (those the handler read), the flashed message, the page answered, and  *)
(* whether a store or mail call raised while it was handled.  `again`     *)
(* marks a request that repeats an earlier one: a register for an email   *)
(* that has a pending registration, a verify_email or reset_password with *)
(* a token that has already completed its flow.                           *)
NoForm == [username |-> <<>>, password |-> <<>>, confirm_password |-> <<>>]

Respond(op, token, role, form, again, flash, goto, raised) ==
  last' = [op |-> op, token |-> token, role |-> role, form |-> form,
           again |-> again, flash |-> flash, goto |-> goto, raised |-> raised]

(* One more request handled, or one more change of the clock *)
Counted == steps < MaxSteps /\ steps' = steps + 1

NoRequest ==
  [op |-> "none", token |-> NoToken, role |-> "", form |-> NoForm,
   again |-> FALSE, flash |-> NoFlash, goto |-> "index", raised |-> FALSE]

(* A request being handled in a worker of its own: where it stands in     *)
(* verify_email and the locals it holds there.                            *)
Idle ==
  [pc |-> "idle", token |-> NoToken, email |-> <<>>, role |-> "",
   username |-> <<>>, password |-> <<>>, confirm_password |-> <<>>,
   flash |-> NoFlash, raised |-> FALSE]

Init ==
  /\ users = <<>>
  /\ pending = <<>>
  /\ mailbox = {}
  /\ redeemed = {}
  /\ session = <<>>
  /\ now = 0
  /\ steps = 0
  /\ last = NoRequest
  /\ inflight = [s \in Slots |-> Idle]

-----------------------------------------------------------------------------
(* Routes, each handled to completion *)

(* register as it would be if a failed dispatch undid the upsert *)
register_RollsBack ==
  /\ Counted
  /\ UNCHANGED <<users, redeemed, session, now, inflight>>
  /\ \E email \in EmailInputs :
     LET again == Matching(pending, "email", email) # {}
     IN IF email = <<>> \/ ~Contains(email, {"@"})
          THEN /\ Respond("register", NoToken, "", NoForm, again, InvalidInput,
                          "register", FALSE)
               /\ UNCHANGED <<pending, mailbox>>
          ELSE \E selectRaises \in BOOLEAN :
               \E user \in get_user_by_email(email, selectRaises) :
            IF user # <<>>
              THEN /\ Respond("register", NoToken, "", NoForm, again,
                              DuplicateEmail, "register", FALSE)
                   /\ UNCHANGED <<pending, mailbox>>
              ELSE \E role \in RoleInputs, deleteRaises \in BOOLEAN :
                   \E insertRaises \in IF deleteRaises THEN {FALSE} ELSE BOOLEAN :
                LET token == dumps(email, "email-verification")
                    saved == create_pending_registration(email, role, token,
                                                         deleteRaises, insertRaises)
                IN IF saved.row = <<>>
                        THEN /\ pending' = saved.table
                             /\ Respond("register", token, role, NoForm, again,
                                        PendingNotSaved, "register", TRUE)
                             /\ UNCHANGED mailbox
                        ELSE \E mailRaises \in BOOLEAN :
                          IF mailRaises
                            THEN /\ pending' = DeleteWhere(pending, "email", email)
                                 /\ Respond("register", token, role, NoForm, again,
                                            EmailDispatchFailed, "register", TRUE)
                                 /\ UNCHANGED mailbox
                            ELSE /\ pending' = saved.table
                                 /\ mailbox' = mailbox \cup {token}
                                 /\ Respond("register", token, role, NoForm, again,
                                            VerificationSent, "login",
                                            selectRaises)

register ==
  /\ Counted
  /\ UNCHANGED <<users, redeemed, session, now, inflight>>
  /\ \E email \in EmailInputs :
     LET again == Matching(pending, "email", email) # {}
     IN IF email = <<>> \/ ~Contains(email, {"@"})
          THEN /\ Respond("register", NoToken, "", NoForm, again, InvalidInput,
                          "register", FALSE)
               /\ UNCHANGED <<pending, mailbox>>
          ELSE \E selectRaises \in BOOLEAN :
               \E user \in get_user_by_email(email, selectRaises) :
            IF user # <<>>
              THEN /\ Respond("register", NoToken, "", NoForm, again,
                              DuplicateEmail, "register", FALSE)
                   /\ UNCHANGED <<pending, mailbox>>
              ELSE \E role \in RoleInputs, deleteRaises \in BOOLEAN :
                   \E insertRaises \in IF deleteRaises THEN {FALSE} ELSE BOOLEAN :
                LET token == dumps(email, "email-verification")
                    saved == create_pending_registration(email, role, token,
                                                         deleteRaises, insertRaises)
                IN /\ pending' = saved.table
                   /\ IF saved.row = <<>>
                        THEN /\ Respond("register", token, role, NoForm, again,
                                        PendingNotSaved, "register", TRUE)
                             /\ UNCHANGED mailbox
                        ELSE \E mailRaises \in BOOLEAN :
                          IF mailRaises
                            THEN /\ Respond("register", token, role, NoForm, again,
                                            EmailDispatchFailed, "register", TRUE)
                                 /\ UNCHANGED mailbox
                            ELSE /\ mailbox' = mailbox \cup {token}
                                 /\ Respond("register", token, role, NoForm, again,
                                            VerificationSent, "login",
                                            selectRaises)

(* An exit of verify_email as it would be if every rejection re-rendered  *)
(* the completion form instead of redirecting                             *)
VerifyRejected_ToForm(token, form, flash, goto, raised) ==
  /\ Respond("verify_email", token, "", form, token \in redeemed, flash,
             "verify_email_page", raised)
  /\ UNCHANGED <<users, pending, redeemed>>

(* An exit of verify_email that flashes a message and returns without     *)
(* having written to the store                                            *)
VerifyRejected_DropsPending(token, form, flash, goto, raised) ==
  /\ Respond("verify_email", token, "", form, token \in redeemed, flash, goto,
             raised)
  /\ pending' = DeleteWhere(pending, "email", token.payload)
  /\ UNCHANGED <<users, redeemed>>

VerifyRejected(token, form, flash, goto, raised) ==
  /\ Respond("verify_email", token, "", form, token \in redeemed, flash, goto,
             raised)
  /\ UNCHANGED <<users, pending, redeemed>>

verify_email ==
  /\ Counted
  /\ UNCHANGED <<mailbox, session, now, inflight>>
  /\ \E token \in TokenInputs, method \in {"GET", "POST"} :
     LET r == loads(token, "email-verification", MAX_AGE)
     IN IF ~r.ok
          THEN VerifyRejected(token, NoForm,
                              IF r.error = "SignatureExpired"
                                THEN VerifyExpired ELSE VerifyInvalid,
                              "register", FALSE)
          ELSE \E pendingRaises \in BOOLEAN :
               \E p \in get_pending_registration(r.email, pendingRaises) :
            IF p = <<>>
              THEN VerifyRejected(token, NoForm, PendingNotFound, "register",
                                  pendingRaises)
            ELSE IF method = "GET"
              THEN VerifyRejected(token, NoForm, NoFlash, "verify_email_page",
                                  FALSE)
            ELSE \E username \in UsernameInputs :
              IF username = <<>> \/ Len(username) < MIN_USERNAME
                THEN VerifyRejected(token, [NoForm EXCEPT !.username = username],
                                    InvalidUsername, "verify_email_page", FALSE)
              ELSE \E selectRaises \in BOOLEAN :
                   \E taken \in get_user_by_username(username, selectRaises) :
                IF taken # <<>>
                  THEN VerifyRejected(token,
                                      [NoForm EXCEPT !.username = username],
                                      UsernameTaken, "verify_email_page", FALSE)
                ELSE \E password \in NewPasswordInputs,
                        confirm_password \in NewPasswordInputs :
                  LET form == [username |-> username, password |-> password,
                               confirm_password |-> confirm_password]
                  IN IF password # confirm_password
                       THEN VerifyRejected(token, form, PasswordMismatch,
                                           "verify_email_page", selectRaises)
                     ELSE IF ~validate_password(password).ok
                       THEN VerifyRejected(token, form,
                                           validate_password(password).message,
                                           "verify_email_page", selectRaises)
                     ELSE \E insertRaises \in BOOLEAN :
                       LET role == p[1].role
                           user == create_user(r.email, username, password, role,
                                               insertRaises)
                       IN IF user.row = <<>>
                            THEN VerifyRejected(token, form, AccountNotCreated,
                                                "verify_email_page", TRUE)
                            ELSE \E deleteRaises \in BOOLEAN :
                              /\ users' = user.table
                              /\ pending' = delete_pending_registration(
                                              r.email, deleteRaises).table
                              /\ redeemed' = redeemed \cup {token}
                              /\ Respond("verify_email", token, "", form,
                                         token \in redeemed, RegistrationDone,
                                         "login", selectRaises \/ deleteRaises)

DashboardOf(role) ==
  CASE role = "kasir" -> "dashboard_kasir"
    [] role = "akuntan" -> "dashboard_akuntan"
    [] role = "owner" -> "dashboard_owner"
    [] role = "karyawan" -> "dashboard_karyawan"
    [] OTHER -> "BuildError"

(* login as it would be if it told an unknown username apart *)
login_TellsUnknown ==
  /\ Counted
  /\ UNCHANGED <<users, pending, mailbox, redeemed, now, inflight>>
  /\ \E username \in UsernameInputs, password \in PasswordInputs,
        selectRaises \in BOOLEAN :
     \E user \in get_user_by_username(username, selectRaises) :
     LET form == [NoForm EXCEPT !.username = username, !.password = password]
     IN IF user = <<>>
          THEN /\ Respond("login", NoToken, "", form, FALSE,
                          "Username tidak terdaftar!", "login", selectRaises)
               /\ UNCHANGED session
        ELSE IF ~check_password_hash(user[1].password_hash, password)
          THEN /\ Respond("login", NoToken, "", form, FALSE, InvalidCredentials,
                          "login", FALSE)
               /\ UNCHANGED session
        ELSE LET identity == [username |-> username, role |-> user[1].role,
                              email |-> user[1].email]
             IN IF DashboardOf(user[1].role) # "BuildError"
                  THEN /\ session' = identity
                       /\ Respond("login", NoToken, "", form, FALSE, NoFlash,
                                  DashboardOf(user[1].role), FALSE)
                  ELSE \* url_for raises: whether the session cookie is still
                       \* written depends on how the error is propagated
                       /\ session' \in {session, identity}
                       /\ Respond("login", NoToken, "", form, FALSE, NoFlash,
                                  "BuildError", FALSE)

login ==
  /\ Counted
  /\ UNCHANGED <<users, pending, mailbox, redeemed, now, inflight>>
  /\ \E username \in UsernameInputs, password \in PasswordInputs,
        selectRaises \in BOOLEAN :
     \E user \in get_user_by_username(username, selectRaises) :
     LET form == [NoForm EXCEPT !.username = username, !.password = password]
     IN IF user = <<>>
          THEN /\ Respond("login", NoToken, "", form, FALSE, InvalidCredentials,
                          "login", selectRaises)
               /\ UNCHANGED session
        ELSE IF ~check_password_hash(user[1].password_hash, password)
          THEN /\ Respond("login", NoToken, "", form, FALSE, InvalidCredentials,
                          "login", FALSE)
               /\ UNCHANGED session
        ELSE LET identity == [username |-> username, role |-> user[1].role,
                              email |-> user[1].email]
             IN IF DashboardOf(user[1].role) # "BuildError"
                  THEN /\ session' = identity
                       /\ Respond("login", NoToken, "", form, FALSE, NoFlash,
                                  DashboardOf(user[1].role), FALSE)
                  ELSE \* url_for raises: whether the session cookie is still
                       \* written depends on how the error is propagated
                       /\ session' \in {session, identity}
                       /\ Respond("login", NoToken, "", form, FALSE, NoFlash,
                                  "BuildError", FALSE)

(* forgot_password as it would be without the account check *)
forgot_password_AnyEmail ==
  /\ Counted
  /\ UNCHANGED <<users, pending, redeemed, session, now, inflight>>
  /\ \E email \in EmailInputs, selectRaises \in BOOLEAN :
     \E user \in get_user_by_email(email, selectRaises) :
       IF FALSE
         THEN /\ Respond("forgot_password", NoToken, "", NoForm, FALSE,
                         EmailNotFound, "forgot_password", selectRaises)
              /\ UNCHANGED mailbox
         ELSE \E mailRaises \in BOOLEAN :
           LET token == dumps(email, "password-reset")
           IN IF mailRaises
                THEN /\ Respond("forgot_password", token, "", NoForm, FALSE,
                                EmailDispatchFailed, "forgot_password", TRUE)
                     /\ UNCHANGED mailbox
                ELSE /\ mailbox' = mailbox \cup {token}
                     /\ Respond("forgot_password", token, "", NoForm, FALSE,
                                ResetSent, "login", FALSE)

forgot_password ==
  /\ Counted
  /\ UNCHANGED <<users, pending, redeemed, session, now, inflight>>
  /\ \E email \in EmailInputs, selectRaises \in BOOLEAN :
     \E user \in get_user_by_email(email, selectRaises) :
       IF user = <<>>
         THEN /\ Respond("forgot_password", NoToken, "", NoForm, FALSE,
                         EmailNotFound, "forgot_password", selectRaises)
              /\ UNCHANGED mailbox
         ELSE \E mailRaises \in BOOLEAN :
           LET token == dumps(email, "password-reset")
           IN IF mailRaises
                THEN /\ Respond("forgot_password", token, "", NoForm, FALSE,
                                EmailDispatchFailed, "forgot_password", TRUE)
                     /\ UNCHANGED mailbox
                ELSE /\ mailbox' = mailbox \cup {token}
                     /\ Respond("forgot_password", token, "", NoForm, FALSE,
                                ResetSent, "login", FALSE)

(* An exit of reset_password that flashes a message and returns without   *)
(* having written to the store                                            *)
ResetRejected(token, form, flash, goto) ==
  /\ Respond("reset_password", token, "", form, token \in redeemed, flash, goto,
             FALSE)
  /\ UNCHANGED <<users, redeemed>>

reset_password ==
  /\ Counted
  /\ UNCHANGED <<pending, mailbox, session, now, inflight>>
  /\ \E token \in TokenInputs, method \in {"GET", "POST"} :
     LET r == loads(token, "password-reset", MAX_AGE)
     IN IF ~r.ok
          THEN ResetRejected(token, NoForm,
                             IF r.error = "SignatureExpired"
                               THEN ResetExpired ELSE ResetInvalid,
                             "forgot_password")
        ELSE IF method = "GET"
          THEN ResetRejected(token, NoForm, NoFlash, "reset_password_page")
        ELSE \E password \in PasswordInputs, confirm_password \in PasswordInputs :
          LET form == [NoForm EXCEPT !.password = password,
                                     !.confirm_password = confirm_password]
          IN IF password # confirm_password
               THEN ResetRejected(token, form, PasswordMismatch,
                                  "reset_password_page")
             ELSE IF ~validate_password(password).ok
               THEN ResetRejected(token, form,
                                  validate_password(password).message,
                                  "reset_password_page")
             ELSE \E updateRaises \in BOOLEAN :
               LET updated == update_user_password(r.email, password,
                                                   updateRaises)
               IN /\ users' = updated.table
                  /\ IF updated.row # <<>>
                       THEN /\ redeemed' = redeemed \cup {token}
                            /\ Respond("reset_password", token, "", form,
                                       token \in redeemed, ResetDone, "login",
                                       FALSE)
                       ELSE /\ UNCHANGED redeemed
                            /\ Respond("reset_password", token, "", form,
                                       token \in redeemed, ResetNotDone,
                                       "reset_password_page", updateRaises)

(* A role's dashboard: rendered for a session of that role, redirected to *)
(* the login page otherwise                                               *)
dashboard_AnyRole(role) ==
  /\ Counted
  /\ UNCHANGED <<users, pending, mailbox, redeemed, session, now, inflight>>
  /\ IF session = <<>>
       THEN Respond(DashboardOf(role), NoToken, role, NoForm, FALSE,
                    LoginRequired, "login", FALSE)
       ELSE Respond(DashboardOf(role), NoToken, role, NoForm, FALSE, NoFlash,
                    "generate_dashboard", FALSE)

dashboard(role) ==
  /\ Counted
  /\ UNCHANGED <<users, pending, mailbox, redeemed, session, now, inflight>>
  /\ IF session = <<>> \/ session.role # role
       THEN Respond(DashboardOf(role), NoToken, role, NoForm, FALSE,
                    LoginRequired, "login", FALSE)
       ELSE Respond(DashboardOf(role), NoToken, role, NoForm, FALSE, NoFlash,
                    "generate_dashboard", FALSE)

dashboard_kasir == dashboard("kasir")

dashboard_akuntan == dashboard("akuntan")

dashboard_owner == dashboard("owner")

dashboard_karyawan == dashboard("karyawan")

logout ==
  /\ Counted
  /\ UNCHANGED <<users, pending, mailbox, redeemed, now, inflight>>
  /\ session' = <<>>
  /\ Respond("logout", NoToken, "", NoForm, FALSE, LoggedOut, "index", FALSE)

(* The wall clock, in whole seconds as the serializer reads it.  The      *)
(* answer to the last request is no longer on screen once time has passed. *)
Tick ==
  /\ Counted
  /\ \E d \in {MAX_AGE - 1, MAX_AGE, MAX_AGE + 1} : now' = now + d
  /\ last' = NoRequest
  /\ UNCHANGED <<users, pending, mailbox, redeemed, session, inflight>>

(* The registration and reset flows over time.  login only reads the      *)
(* users table and writes the session, which no other route reads: the    *)
(* flows that end in a login are followed in SpecSession, within one      *)
(* second of the clock.                                                   *)
Next ==
  \/ register
  \/ verify_email
  \/ forgot_password
  \/ reset_password
  \/ Tick

Spec == Init /\ [][Next]_vars

(* The routes that read or write accounts, from a state in which one      *)
(* registration has been completed and a password reset requested for it, *)
(* and a second registration awaits its verification.                     *)
InitAccounts ==
  LET verifyA == [payload |-> EmailA, salt |-> "email-verification", ts |-> 0]
      resetB == [payload |-> EmailB, salt |-> "password-reset", ts |-> 0]
  IN /\ users = <<[email |-> EmailB, username |-> Bob,
                   password_hash |-> generate_password_hash(PwGood),
                   role |-> "kasir"]>>
     /\ pending = <<[email |-> EmailA, role |-> "owner", token |-> verifyA,
                     expires_at |-> HOUR]>>
     /\ mailbox = {verifyA, resetB}
     /\ redeemed = {}
     /\ session = <<>>
     /\ now = 0
     /\ steps = 0
     /\ last = NoRequest
     /\ inflight = [s \in Slots |-> Idle]

NextAccounts ==
  \/ verify_email
  \/ forgot_password
  \/ reset_password
  \/ Tick

SpecAccounts == InitAccounts /\ [][NextAccounts]_vars

(* validate_password on its own, over passwords made of a part of up to   *)
(* MaxCore characters followed by up to MaxPad copies of one character,   *)
(* the characters being one of each class and one of none                 *)
PolicyAlphabet == {"A", "z", "0", ">", "-"}

PolicyInputs ==
  {core \o [i \in 1..n |-> c] :
     core \in UNION {[1..k -> PolicyAlphabet] : k \in 0..MaxCore},
     n \in 0..MaxPad, c \in PolicyAlphabet}

InitPolicy ==
  /\ users = <<>>
  /\ pending = <<>>
  /\ mailbox = {}
  /\ redeemed = {}
  /\ session = <<>>
  /\ now = 0
  /\ steps = 0
  /\ inflight = [s \in Slots |-> Idle]
  /\ \E password \in PolicyInputs :
       last = [NoRequest EXCEPT !.form.password = password]

CheckPassword ==
  /\ last.op = "none"
  /\ Counted
  /\ UNCHANGED <<users, pending, mailbox, redeemed, session, now, inflight>>
  /\ LET r == validate_password(last.form.password)
     IN last' = [last EXCEPT !.op = "validate_password",
                             !.flash = r.message,
                             !.goto = IF r.ok THEN "valid" ELSE "invalid"]

SpecPolicy == InitPolicy /\ [][CheckPassword]_vars

NextSession ==
  \/ register
  \/ verify_email
  \/ forgot_password
  \/ reset_password
  \/ login
  \/ dashboard_kasir
  \/ dashboard_akuntan
  \/ dashboard_owner
  \/ dashboard_karyawan
  \/ logout

SpecSession == Init /\ [][NextSession]_vars

-----------------------------------------------------------------------------
(* verify_email POST handled by concurrent workers: the store calls of    *)
(* different requests interleave, each call being atomic.                 *)

Finish(s, flash) ==
  inflight' = [inflight EXCEPT ![s].pc = "done", ![s].flash = flash]

(* Step A: the token check and the pending lookup *)
VerifyLoads(s) ==
  /\ inflight[s].pc = "idle"
  /\ UNCHANGED <<users, pending, mailbox, redeemed, session, now, steps, last>>
  /\ \E token \in TokenInputs, username \in UsernameInputs,
        password \in NewPasswordInputs, confirm_password \in NewPasswordInputs :
     LET r == loads(token, "email-verification", MAX_AGE)
         req == [inflight[s] EXCEPT !.token = token, !.username = username,
                                    !.password = password,
                                    !.confirm_password = confirm_password]
     IN IF ~r.ok
          THEN inflight' = [inflight EXCEPT ![s] =
                 [req EXCEPT !.pc = "done",
                             !.flash = IF r.error = "SignatureExpired"
                                         THEN VerifyExpired ELSE VerifyInvalid]]
          ELSE \E pendingRaises \in BOOLEAN :
               \E p \in get_pending_registration(r.email, pendingRaises) :
            IF p = <<>>
              THEN inflight' = [inflight EXCEPT ![s] =
                     [req EXCEPT !.pc = "done", !.flash = PendingNotFound,
                                 !.raised = pendingRaises]]
              ELSE inflight' = [inflight EXCEPT ![s] =
                     [req EXCEPT !.pc = "check", !.email = r.email,
                                 !.role = p[1].role]]

(* Step B up to the account insert: the form checks and the availability  *)
(* lookup                                                                 *)
VerifyCheck(s) ==
  /\ inflight[s].pc = "check"
  /\ UNCHANGED <<users, pending, mailbox, redeemed, session, now, steps, last>>
  /\ LET req == inflight[s]
     IN IF req.username = <<>> \/ Len(req.username) < MIN_USERNAME
          THEN Finish(s, InvalidUsername)
        ELSE \E selectRaises \in BOOLEAN :
             \E taken \in get_user_by_username(req.username, selectRaises) :
          IF taken # <<>>
            THEN Finish(s, UsernameTaken)
          ELSE IF req.password # req.confirm_password
            THEN Finish(s, PasswordMismatch)
          ELSE IF ~validate_password(req.password).ok
            THEN Finish(s, validate_password(req.password).message)
          ELSE inflight' = [inflight EXCEPT ![s].pc = "insert",
                                            ![s].raised = selectRaises]

(* The account insert. The schema of the users table is not part of the   *)
(* source: the store may or may not reject a row whose username or email  *)
(* is already there, and a rejection reaches create_user as an exception  *)
(* like any other. raised records the failures that are not rejections.   *)
VerifyInsert(s) ==
  /\ inflight[s].pc = "insert"
  /\ UNCHANGED <<pending, mailbox, redeemed, session, now, steps, last>>
  /\ \E insertRaises \in BOOLEAN, enforced \in BOOLEAN :
     LET req == inflight[s]
         rejected == /\ enforced
                     /\ \/ Matching(users, "username", req.username) # {}
                        \/ Matching(users, "email", req.email) # {}
         user == create_user(req.email, req.username, req.password, req.role,
                             insertRaises \/ rejected)
     IN /\ users' = user.table
        /\ IF user.row = <<>>
             THEN inflight' = [inflight EXCEPT
                    ![s].pc = "done", ![s].flash = AccountNotCreated,
                    ![s].raised = inflight[s].raised \/ insertRaises]
             ELSE inflight' = [inflight EXCEPT ![s].pc = "delete"]

VerifyDelete(s) ==
  /\ inflight[s].pc = "delete"
  /\ UNCHANGED <<users, mailbox, session, now, steps, last>>
  /\ \E deleteRaises \in BOOLEAN :
       /\ pending' = delete_pending_registration(inflight[s].email,
                                                 deleteRaises).table
       /\ redeemed' = redeemed \cup {inflight[s].token}
       /\ inflight' = [inflight EXCEPT
            ![s].pc = "done", ![s].flash = RegistrationDone,
            ![s].raised = inflight[s].raised \/ deleteRaises]

(* Two registrations, for two emails, have been made and their mails sent *)
InitConc ==
  LET tokenA == [payload |-> EmailA, salt |-> "email-verification", ts |-> 0]
      tokenB == [payload |-> EmailB, salt |-> "email-verification", ts |-> 0]
  IN /\ users = <<>>
     /\ pending = <<[email |-> EmailA, role |-> "owner", token |-> tokenA,
                     expires_at |-> HOUR],
                    [email |-> EmailB, role |-> "kasir", token |-> tokenB,
                     expires_at |-> HOUR]>>
     /\ mailbox = {tokenA, tokenB}
     /\ redeemed = {}
     /\ session = <<>>
     /\ now = 0
     /\ steps = 0
     /\ last = NoRequest
     /\ inflight = [s \in Slots |-> Idle]

VerifyLoadsStep == \E s \in Slots : VerifyLoads(s)
VerifyCheckStep == \E s \in Slots : VerifyCheck(s)
VerifyInsertStep == \E s \in Slots : VerifyInsert(s)
VerifyDeleteStep == \E s \in Slots : VerifyDelete(s)

NextConc ==
  \/ VerifyLoadsStep
  \/ VerifyCheckStep
  \/ VerifyInsertStep
  \/ VerifyDeleteStep

SpecConc == InitConc /\ [][NextConc]_vars

(***************************************************************************)
(* register POST handled by concurrent workers: the store calls of         *)
(* create_pending_registration and the mail dispatch are separate steps,   *)
(* and the steps of two requests interleave.                               *)
(***************************************************************************)

(* The input check, the account lookup and the token issue *)
RegisterCheck(s) ==
  /\ inflight[s].pc = "idle"
  /\ UNCHANGED <<users, pending, mailbox, redeemed, session, now, steps, last>>
  /\ \E email \in EmailInputs, role \in RoleInputs :
     LET req == [inflight[s] EXCEPT !.email = email, !.role = role]
     IN IF email = <<>> \/ ~Contains(email, {"@"})
          THEN inflight' = [inflight EXCEPT ![s] =
                 [req EXCEPT !.pc = "done", !.flash = InvalidInput]]
          ELSE \E selectRaises \in BOOLEAN :
               \E user \in get_user_by_email(email, selectRaises) :
            IF user # <<>>
              THEN inflight' = [inflight EXCEPT ![s] =
                     [req EXCEPT !.pc = "done", !.flash = DuplicateEmail]]
              ELSE inflight' = [inflight EXCEPT ![s] =
                     [req EXCEPT !.pc = "pending_delete",
                                 !.token = dumps(email, "email-verification"),
                                 !.raised = selectRaises]]

(* The delete of create_pending_registration *)
RegisterDelete(s) ==
  /\ inflight[s].pc = "pending_delete"
  /\ UNCHANGED <<users, mailbox, redeemed, session, now, steps, last>>
  /\ \E deleteRaises \in BOOLEAN :
       IF deleteRaises
         THEN /\ UNCHANGED pending
              /\ inflight' = [inflight EXCEPT
                   ![s].pc = "done", ![s].flash = PendingNotSaved,
                   ![s].raised = TRUE]
         ELSE /\ pending' = DeleteWhere(pending, "email", inflight[s].email)
              /\ inflight' = [inflight EXCEPT ![s].pc = "pending_insert"]

(* The insert of create_pending_registration. The schema of the           *)
(* pending_registrations table is not part of the source: the store may   *)
(* or may not reject a row whose email is already there, and a rejection  *)
(* reaches create_pending_registration as an exception like any other.    *)
RegisterInsert(s) ==
  /\ inflight[s].pc = "pending_insert"
  /\ UNCHANGED <<users, mailbox, redeemed, session, now, steps, last>>
  /\ \E insertRaises \in BOOLEAN, enforced \in BOOLEAN :
     LET req == inflight[s]
         rejected == enforced /\ Matching(pending, "email", req.email) # {}
         data == [email |-> req.email, role |-> req.role, token |-> req.token,
                  expires_at |-> now + HOUR]
     IN IF insertRaises \/ rejected
          THEN /\ UNCHANGED pending
               /\ inflight' = [inflight EXCEPT
                    ![s].pc = "done", ![s].flash = PendingNotSaved,
                    ![s].raised = inflight[s].raised \/ insertRaises]
          ELSE /\ pending' = Append(pending, data)
               /\ inflight' = [inflight EXCEPT ![s].pc = "mail"]

(* The dispatch of the verification mail *)
RegisterMail(s) ==
  /\ inflight[s].pc = "mail"
  /\ UNCHANGED <<users, pending, redeemed, session, now, steps, last>>
  /\ \E mailRaises \in BOOLEAN :
       IF mailRaises
         THEN /\ UNCHANGED mailbox
              /\ inflight' = [inflight EXCEPT
                   ![s].pc = "done", ![s].flash = EmailDispatchFailed,
                   ![s].raised = TRUE]
         ELSE /\ mailbox' = mailbox \cup {inflight[s].token}
              /\ Finish(s, VerificationSent)

RegisterCheckStep == \E s \in Slots : RegisterCheck(s)
RegisterDeleteStep == \E s \in Slots : RegisterDelete(s)
RegisterInsertStep == \E s \in Slots : RegisterInsert(s)
RegisterMailStep == \E s \in Slots : RegisterMail(s)

NextRegister ==
  \/ RegisterCheckStep
  \/ RegisterDeleteStep
  \/ RegisterInsertStep
  \/ RegisterMailStep

SpecRegister == Init /\ [][NextRegister]_vars

-----------------------------------------------------------------------------
(* Vocabulary of the properties *)

WithEmail(table, email) == Matching(table, "email", email)

WithUsername(table, username) == Matching(table, "username", username)

(* The token is of the given purpose and inside its validity window *)
InWindow(token, salt) == token.salt = salt /\ now - token.ts <= MAX_AGE

PolicyMessages ==
  {"Password harus 8-20 karakter", "Password harus mengandung huruf besar",
   "Password harus mengandung huruf kecil", "Password harus mengandung angka",
   "Password harus mengandung karakter khusus (!@#$%^&*...)"}

StepBFailures ==
  {InvalidUsername, UsernameTaken, PasswordMismatch} \cup PolicyMessages

-----------------------------------------------------------------------------
(* C1: no two account records share the same email, in every state        *)
(* reached by register, verify_email and reset_password requests,         *)
(* repeated tokens and failing store calls included.                      *)
C1_EmailUnique ==
  \A i, j \in DOMAIN users : users[i].email = users[j].email => i = j

(* C2: when two verify_email submissions for two different pending emails *)
(* with the same username, both otherwise valid and with no store call    *)
(* failing for a reason other than the store rejecting a duplicate, have  *)
(* both been answered, exactly one account has that username and the      *)
(* other submission was answered UsernameTaken.                           *)
C2_ExactlyOneAccount ==
  \A s, t \in Slots :
    (/\ s # t
     /\ inflight[s].pc = "done" /\ inflight[t].pc = "done"
     /\ inflight[s].email # <<>> /\ inflight[t].email # <<>>
     /\ inflight[s].email # inflight[t].email
     /\ inflight[s].username = inflight[t].username
     /\ Len(inflight[s].username) >= MIN_USERNAME
     /\ \A r \in {s, t} :
          /\ inflight[r].password = inflight[r].confirm_password
          /\ validate_password(inflight[r].password).ok
          /\ ~inflight[r].raised)
    => /\ Cardinality(WithUsername(users, inflight[s].username)) = 1
       /\ {inflight[s].flash, inflight[t].flash} = {RegistrationDone, UsernameTaken}

(* C3: a verify_email request, GET or POST, that carries a verification   *)
(* token for which success has already been reported, inside the token's  *)
(* window, is answered PendingNotFound and leaves the accounts unchanged. *)
C3_VerifyTokenSingleUse ==
  [][(/\ last'.op = "verify_email"
      /\ last'.again
      /\ InWindow(last'.token, "email-verification"))
     => (last'.flash = PendingNotFound /\ users' = users)]_vars

(* C4, as claimed: a reset_password request with a token that has already *)
(* updated the password does not change the password again.               *)
C4_ResetTokenSingleUse ==
  [][(/\ last'.op = "reset_password"
      /\ last'.token.salt = "password-reset"
      /\ last'.again)
     => users' = users]_vars

(* C4, amended: a reset token that has already updated the password       *)
(* updates it again on every reset_password made inside the token's       *)
(* window with matching, policy-valid passwords; outside the window it is *)
(* answered ExpiredToken and no account changes.                          *)
C4_ResetTokenReusableInWindow ==
  [][(/\ last'.op = "reset_password"
      /\ last'.token.salt = "password-reset"
      /\ last'.again)
     => /\ users' # users => /\ InWindow(last'.token, "password-reset")
                             /\ last'.flash = ResetDone
        /\ ~InWindow(last'.token, "password-reset")
             => last'.flash = ResetExpired /\ users' = users
        /\ (/\ InWindow(last'.token, "password-reset")
            /\ last'.form.password # <<>>
            /\ last'.form.password = last'.form.confirm_password
            /\ validate_password(last'.form.password).ok
            /\ ~last'.raised)
           => /\ last'.flash = ResetDone
              /\ \A i \in WithEmail(users', last'.token.payload) :
                   check_password_hash(users'[i].password_hash,
                                       last'.form.password)]_vars

C4_Witness ==
  /\ last.op = "reset_password"
  /\ last.token.salt = "password-reset"
  /\ last.again
  /\ last.flash = ResetDone
  /\ \E i \in DOMAIN users :
       check_password_hash(users[i].password_hash, last.form.password)

(* C5: verify_email and reset_password answer ExpiredToken to a token of  *)
(* their purpose presented more than 3600 seconds after its issuance, and *)
(* then create no account, update no password and leave the pending       *)
(* registrations alone; presented 3599 seconds after issuance the token   *)
(* passes the token check.                                                *)
C5_TokenExpiry ==
  [][/\ (last'.op = "verify_email"
         /\ last'.token.salt = "email-verification")
        => /\ now - last'.token.ts > MAX_AGE
                => /\ last'.flash = VerifyExpired
                   /\ users' = users /\ pending' = pending
           /\ now - last'.token.ts = MAX_AGE - 1
                => last'.flash \notin {VerifyExpired, VerifyInvalid}
     /\ (last'.op = "reset_password" /\ last'.token.salt = "password-reset")
        => /\ now - last'.token.ts > MAX_AGE
                => /\ last'.flash = ResetExpired
                   /\ users' = users /\ pending' = pending
           /\ now - last'.token.ts = MAX_AGE - 1
                => last'.flash \notin {ResetExpired, ResetInvalid}]_vars

C5_Witness ==
  /\ last.op = "reset_password"
  /\ last.token.salt = "password-reset"
  /\ now - last.token.ts > MAX_AGE
  /\ last.flash = ResetExpired

(* C6: reset_password answers InvalidToken to a token issued by register, *)
(* verify_email answers InvalidToken to a token issued by                 *)
(* forgot_password, and neither then changes an account or a pending      *)
(* registration.                                                          *)
C6_PurposeIsolation ==
  [][(\/ last'.op = "reset_password" /\ last'.token.salt = "email-verification"
      \/ last'.op = "verify_email" /\ last'.token.salt = "password-reset")
     => /\ last'.flash = IF last'.op = "reset_password"
                           THEN ResetInvalid ELSE VerifyInvalid
        /\ users' = users
        /\ pending' = pending]_vars

C6_Witness ==
  /\ last.op = "verify_email"
  /\ last.token.salt = "password-reset"
  /\ last.token \in mailbox
  /\ last.flash = VerifyInvalid

(* C7: there is at most one pending registration per email, and a         *)
(* register request for an email that already has one, once it has        *)
(* persisted its own, leaves exactly one for that email, with the role    *)
(* and the token of that request.                                         *)
C7_PendingUnique ==
  [][/\ \A i, j \in DOMAIN pending' :
          pending'[i].email = pending'[j].email => i = j
     /\ (/\ last'.op = "register"
         /\ last'.again
         /\ last'.flash \in {VerificationSent, EmailDispatchFailed})
        => \E i \in DOMAIN pending' :
             /\ WithEmail(pending', last'.token.payload) = {i}
             /\ pending'[i].role = last'.role
             /\ pending'[i].token = last'.token]_vars

C7_Witness ==
  /\ last.op = "register"
  /\ last.again
  /\ last.flash = VerificationSent
  /\ \E t \in mailbox : t.salt = "email-verification" /\ t # last.token
  /\ Len(pending) = 1
  /\ pending[1].token = last.token

(* C8: a register that sends its mail leaves one pending registration     *)
(* with the requested role and puts its token in the mailbox; a           *)
(* verify_email POST with that token inside its window, a free username   *)
(* of at least 3 characters, matching policy-valid passwords, no account  *)
(* for the email and no store call raising, appends the account (email,   *)
(* username, role of the pending registration) and leaves no pending      *)
(* registration for the email; a login with the username and password of  *)
(* the only account of that username, its role being one of the four,     *)
(* sets the session to that account and answers the role's dashboard.     *)
C8_EndToEnd ==
  [][/\ (last'.op = "register" /\ last'.flash = VerificationSent)
        => /\ last'.token \in mailbox'
           /\ \E i \in DOMAIN pending' :
                /\ WithEmail(pending', last'.token.payload) = {i}
                /\ pending'[i].role = last'.role
                /\ pending'[i].token = last'.token
     /\ \A k \in DOMAIN pending :
          (/\ last'.op = "verify_email"
           /\ ~last'.raised
           /\ InWindow(last'.token, "email-verification")
           /\ WithEmail(pending, last'.token.payload) = {k}
           /\ WithEmail(users, last'.token.payload) = {}
           /\ WithUsername(users, last'.form.username) = {}
           /\ Len(last'.form.username) >= MIN_USERNAME
           /\ last'.form.password = last'.form.confirm_password
           /\ validate_password(last'.form.password).ok)
          => /\ last'.flash = RegistrationDone
             /\ last'.goto = "login"
             /\ users' = Append(users,
                  [email |-> last'.token.payload,
                   username |-> last'.form.username,
                   password_hash |-> generate_password_hash(last'.form.password),
                   role |-> pending[k].role])
             /\ WithEmail(pending', last'.token.payload) = {}
     /\ \A k \in DOMAIN users :
          (/\ last'.op = "login"
           /\ ~last'.raised
           /\ WithUsername(users, last'.form.username) = {k}
           /\ check_password_hash(users[k].password_hash, last'.form.password)
           /\ users[k].role \in Roles)
          => /\ session' = [username |-> users[k].username,
                            role |-> users[k].role, email |-> users[k].email]
             /\ last'.goto = DashboardOf(users[k].role)
             /\ last'.flash = NoFlash]_vars

C8_Witness ==
  /\ last.op = "login"
  /\ last.goto = "dashboard_owner"
  /\ users = <<[email |-> EmailA, username |-> Alice,
               password_hash |-> generate_password_hash(PwGood),
               role |-> "owner"]>>
  /\ session = [username |-> Alice, role |-> "owner", email |-> EmailA]
  /\ pending = <<>>
  /\ redeemed # {}

(* C9: a verify_email POST answered InvalidUsername, UsernameTaken,       *)
(* PasswordMismatch or a password policy message creates no account and   *)
(* leaves the pending registration of the token's email present and       *)
(* unchanged.                                                             *)
C9_StepBFailureKeepsPending ==
  [][(last'.op = "verify_email" /\ last'.flash \in StepBFailures)
     => /\ users' = users
        /\ pending' = pending
        /\ WithEmail(pending', last'.token.payload) # {}]_vars

C9_Witness ==
  /\ last.op = "verify_email"
  /\ last.flash = "Password harus 8-20 karakter"
  /\ last.form.password = PwShort
  /\ WithEmail(pending, last.token.payload) # {}
  /\ users = <<>>

(* C10: when the account insert raises during verify_email, the pending   *)
(* registrations are left as they were, the one of the token's email      *)
(* among them, and no account exists for that email.                      *)
C10_InsertFailureLeavesNoAccount ==
  [][(last'.op = "verify_email" /\ last'.flash = AccountNotCreated)
     => /\ pending' = pending
        /\ WithEmail(pending', last'.token.payload) # {}
        /\ WithEmail(users', last'.token.payload) = {}]_vars

(* C11: every account created by verify_email has the role of the pending *)
(* registration stored for the token's email when the request was made,   *)
(* whatever the username and the passwords of the form are; the request   *)
(* changes nothing else of the accounts.                                  *)
C11_RoleFromPending ==
  [][(last'.op = "verify_email" /\ users' # users)
     => \E k \in WithEmail(pending, last'.token.payload) :
          /\ WithEmail(pending, last'.token.payload) = {k}
          /\ users' = Append(users,
               [email |-> last'.token.payload,
                username |-> last'.form.username,
                password_hash |-> generate_password_hash(last'.form.password),
                role |-> pending[k].role])]_vars

C11_Witness ==
  /\ last.op = "verify_email"
  /\ last.flash = RegistrationDone
  /\ users # <<>>
  /\ users[Len(users)].role = "admin"
  /\ users[Len(users)].username = last.form.username

(* C12: a register whose mail dispatch fails answers EmailDispatchFailed, *)
(* sends nothing and leaves the pending registration it has just written, *)
(* the only one of its email; a register for the same email that follows  *)
(* it leaves at most one pending registration for that email, and exactly *)
(* one, its own, once it has persisted it.                                *)
C12_DispatchFailureKeepsPending ==
  [][/\ (last'.op = "register" /\ last'.flash = EmailDispatchFailed)
        => /\ last'.goto = "register"
           /\ mailbox' = mailbox
           /\ \E i \in DOMAIN pending' :
                /\ WithEmail(pending', last'.token.payload) = {i}
                /\ pending'[i].role = last'.role
                /\ pending'[i].token = last'.token
     /\ (/\ last.op = "register" /\ last.flash = EmailDispatchFailed
         /\ last'.op = "register"
         /\ last'.token.payload = last.token.payload)
        => /\ Cardinality(WithEmail(pending', last.token.payload)) <= 1
           /\ last'.flash \in {VerificationSent, EmailDispatchFailed}
                => \E i \in DOMAIN pending' :
                     /\ WithEmail(pending', last.token.payload) = {i}
                     /\ pending'[i].role = last'.role
                     /\ pending'[i].token = last'.token]_vars

C12_Witness ==
  /\ last.op = "register"
  /\ last.again
  /\ last.flash = VerificationSent
  /\ last.role = "admin"
  /\ Len(pending) = 1
  /\ pending[1].role = "admin"
  /\ mailbox = {last.token}
  /\ now > 0

(* C13: a login whose password validates against no account of the        *)
(* submitted username, because there is no such account or because the    *)
(* password is wrong, is answered in one way: InvalidCredentials, a        *)
(* redirect to the login page, and the session left as it was.            *)
C13_NoUsernameEnumeration ==
  [][(/\ last'.op = "login"
      /\ \A i \in WithUsername(users, last'.form.username) :
           users[i].password_hash # generate_password_hash(last'.form.password))
     => /\ last'.flash = InvalidCredentials
        /\ last'.goto = "login"
        /\ session' = session]_vars

C13_Witness ==
  /\ last.op = "login"
  /\ last.flash = InvalidCredentials
  /\ WithUsername(users, last.form.username) = {}
  /\ \E i \in DOMAIN users :
       users[i].password_hash = generate_password_hash(last.form.password)
  /\ session # <<>>

(* C14: the session holds either none of username, role and email, or all *)
(* three with the values of one account; it gets an identity only from a  *)
(* login whose password validates against that account, and a login       *)
(* answered InvalidCredentials leaves it as it was.                       *)
C14_SessionIdentity ==
  [][/\ \/ session' = <<>>
        \/ /\ DOMAIN session' = {"username", "role", "email"}
           /\ \E i \in DOMAIN users' :
                session' = [username |-> users'[i].username,
                            role |-> users'[i].role, email |-> users'[i].email]
     /\ (session' # session /\ session' # <<>>)
        => /\ last'.op = "login"
           /\ \E i \in WithUsername(users, last'.form.username) :
                /\ session' = [username |-> users[i].username,
                               role |-> users[i].role, email |-> users[i].email]
                /\ users[i].password_hash
                     = generate_password_hash(last'.form.password)
     /\ (last'.op = "login" /\ last'.flash = InvalidCredentials)
        => session' = session]_vars

C14_Witness ==
  /\ last.op = "login"
  /\ last.flash = InvalidCredentials
  /\ session # <<>>
  /\ session.username = last.form.username
  /\ session.role = "owner"

(* C15: logout leaves the session without identity; a session without     *)
(* identity gets one only from a login whose password validates; a        *)
(* request for the dashboard of a role is answered with the dashboard     *)
(* exactly when the session holds an identity of that role, and with a    *)
(* redirect to the login page otherwise.                                  *)
C15_DashboardsNeedSession ==
  [][/\ last'.op = "logout" => session' = <<>>
     /\ (session = <<>> /\ session' # <<>>)
        => /\ last'.op = "login"
           /\ \E i \in WithUsername(users, last'.form.username) :
                users[i].password_hash
                  = generate_password_hash(last'.form.password)
     /\ \A R \in Roles :
          last'.op = DashboardOf(R)
          => /\ session' = session
             /\ IF session # <<>> /\ session.username # <<>> /\ session.role = R
                  THEN last'.goto = "generate_dashboard"
                  ELSE /\ last'.goto = "login"
                       /\ last'.flash = LoginRequired]_vars

C15_Witness ==
  /\ last.op = "dashboard_kasir"
  /\ last.goto = "login"
  /\ last.flash = LoginRequired
  /\ session # <<>>
  /\ session.role = "owner"

(* C16: forgot_password changes no account and no pending registration;   *)
(* it answers EmailNotFound, issuing and sending nothing, unless an        *)
(* account of the submitted email exists at that moment, and a token it   *)
(* issues is a password-reset token of that email, put in the mailbox     *)
(* when the dispatch succeeds.                                            *)
C16_ForgotPasswordFrame ==
  [][last'.op = "forgot_password"
     => /\ users' = users
        /\ pending' = pending
        /\ IF last'.flash = EmailNotFound
             THEN mailbox' = mailbox /\ last'.token = NoToken
             ELSE /\ WithEmail(users, last'.token.payload) # {}
                  /\ last'.token.salt = "password-reset"
                  /\ last'.token.ts = now
                  /\ last'.flash \in {ResetSent, EmailDispatchFailed}
                  /\ last'.flash = ResetSent
                       => mailbox' = mailbox \cup {last'.token}
                  /\ last'.flash = EmailDispatchFailed
                       => mailbox' = mailbox]_vars

C16_Witness ==
  /\ last.op = "forgot_password"
  /\ last.flash = ResetSent
  /\ last.token \in mailbox
  /\ last.token.salt = "password-reset"
  /\ WithEmail(users, last.token.payload) # {}
  /\ pending # <<>>

(* C17: no request removes an account or changes the email, the username  *)
(* or the role of one; an account changes only in a reset_password        *)
(* answered ResetDone, only if its email is the one of the token, and     *)
(* only in its password hash, which becomes that of the submitted         *)
(* password; a reset_password answered otherwise changes no account.      *)
C17_AccountsImmutable ==
  [][/\ Len(users') >= Len(users)
     /\ \A i \in DOMAIN users :
          /\ users'[i].email = users[i].email
          /\ users'[i].username = users[i].username
          /\ users'[i].role = users[i].role
          /\ users'[i] # users[i]
               => /\ last'.op = "reset_password"
                  /\ last'.flash = ResetDone
                  /\ users[i].email = last'.token.payload
                  /\ users'[i].password_hash
                       = generate_password_hash(last'.form.password)
     /\ last'.op = "reset_password"
        => /\ Len(users') = Len(users)
           /\ last'.flash # ResetDone => users' = users]_vars

C17_Witness ==
  /\ last.op = "reset_password"
  /\ last.flash = ResetDone
  /\ last.token.payload = EmailB
  /\ \E i, j \in DOMAIN users :
       /\ users[i].email = EmailB
       /\ users[i].password_hash = generate_password_hash(PwGood2)
       /\ users[j].email = EmailA
       /\ users[j].password_hash = generate_password_hash(PwGood)

(* C18: a reset_password answered ResetDone leaves the account of the     *)
(* token's email with a hash that validates the submitted password and no *)
(* other; a login that follows it with the username of that account is    *)
(* answered InvalidCredentials for any other password, the old one        *)
(* included, and with the new password, the lookup not failing and the    *)
(* role being one of the four, sets the session and answers the           *)
(* dashboard.                                                             *)
C18_EndToEndReset ==
  [][/\ (last'.op = "reset_password" /\ last'.flash = ResetDone)
        => /\ WithEmail(users', last'.token.payload) # {}
           /\ \A i \in WithEmail(users', last'.token.payload) :
                \A p \in PasswordInputs :
                  check_password_hash(users'[i].password_hash, p)
                    <=> p = last'.form.password
     /\ \A k \in DOMAIN users :
          (/\ last.op = "reset_password" /\ last.flash = ResetDone
           /\ last'.op = "login"
           /\ WithUsername(users, last'.form.username) = {k}
           /\ users[k].email = last.token.payload)
          => IF last'.form.password = last.form.password
               THEN (~last'.raised /\ users[k].role \in Roles)
                    => /\ last'.flash = NoFlash
                       /\ last'.goto = DashboardOf(users[k].role)
                       /\ session' = [username |-> users[k].username,
                                      role |-> users[k].role,
                                      email |-> users[k].email]
               ELSE /\ last'.flash = InvalidCredentials
                    /\ last'.goto = "login"
                    /\ session' = session]_vars

C18_Witness ==
  /\ last.op = "login"
  /\ last.flash = NoFlash
  /\ last.goto = "dashboard_owner"
  /\ last.form.password = PwGood2
  /\ session # <<>>
  /\ \E t \in redeemed : t.salt = "password-reset"
  /\ \E i \in DOMAIN users :
       /\ users[i].username = last.form.username
       /\ users[i].password_hash = generate_password_hash(PwGood2)

(* C19: validate_password passes a password exactly when its length is    *)
(* between 8 and 20 and it holds an uppercase letter, a lowercase letter, *)
(* a digit and a character of the special set; when it fails, its message *)
(* is that of the first rule violated, in the order length, uppercase,    *)
(* lowercase, digit, special.                                             *)
C19_PasswordPolicy ==
  last.op = "validate_password"
  => LET p == last.form.password
         length == 8 <= Len(p) /\ Len(p) <= 20
         upper == \E i \in DOMAIN p : p[i] \in UpperChars
         lower == \E i \in DOMAIN p : p[i] \in LowerChars
         digit == \E i \in DOMAIN p : p[i] \in DigitChars
         special == \E i \in DOMAIN p : p[i] \in SpecialChars
     IN /\ last.goto = "valid" <=> (length /\ upper /\ lower /\ digit /\ special)
        /\ last.goto \in {"valid", "invalid"}
        /\ last.goto = "valid" => last.flash = "Password valid"
        /\ ~length => last.flash = "Password harus 8-20 karakter"
        /\ (length /\ ~upper)
             => last.flash = "Password harus mengandung huruf besar"
        /\ (length /\ upper /\ ~lower)
             => last.flash = "Password harus mengandung huruf kecil"
        /\ (length /\ upper /\ lower /\ ~digit)
             => last.flash = "Password harus mengandung angka"
        /\ (length /\ upper /\ lower /\ digit /\ ~special)
             => last.flash
                  = "Password harus mengandung karakter khusus (!@#$%^&*...)"

C19_Witness ==
  /\ last.op = "validate_password"
  /\ Len(last.form.password) = 21
  /\ last.flash = "Password harus 8-20 karakter"
  /\ \A class \in {UpperChars, LowerChars, DigitChars, SpecialChars} :
       Contains(last.form.password, class)

(* C20: a register in which the lookup of the account raised reports a    *)
(* failure, writes no pending registration and sends no mail; a           *)
(* verify_email in which the lookup of the username raised creates no     *)
(* account.  (Of the answers of register, PendingNotSaved and             *)
(* EmailDispatchFailed record a failure of another call; of those of      *)
(* verify_email, PendingNotFound and AccountNotCreated do, and            *)
(* RegistrationDone with the pending registration left behind.)           *)
C20_LookupFailureIsFailure ==
  [][/\ (/\ last'.op = "register"
         /\ last'.raised
         /\ last'.flash \notin {PendingNotSaved, EmailDispatchFailed})
        => /\ last'.flash # VerificationSent
           /\ pending' = pending
           /\ mailbox' = mailbox
     /\ (/\ last'.op = "verify_email"
         /\ last'.raised
         /\ last'.flash \notin {PendingNotFound, AccountNotCreated}
         /\ last'.flash = RegistrationDone
              => WithEmail(pending', last'.token.payload) = {})
        => users' = users]_vars

(***************************************************************************)
(* C21  No request ends in an unhandled error: every answer of register,  *)
(* verify_email, login, forgot_password, reset_password and logout is a   *)
(* page or a redirect of the application, also the answer to a login by   *)
(* an account whose stored role is the one submitted at registration.     *)
(* Refuted: login redirects with url_for('dashboard_' + role), which      *)
(* raises for a stored role outside the four dashboards.                  *)
(***************************************************************************)
ResponseTargets ==
  {"index", "register", "login", "verify_email_page", "forgot_password",
   "reset_password_page", "generate_dashboard"}
    \cup {DashboardOf(role) : role \in Roles}

C21_NoUnhandledError ==
  last.op \in {"register", "verify_email", "login", "forgot_password",
               "reset_password", "logout"}
    => last.goto \in ResponseTargets

(***************************************************************************)
(* C22  In every reachable state the role of every account and of every   *)
(* pending registration is one of kasir, akuntan, owner, karyawan,        *)
(* whatever role was submitted to register.                               *)
(* Refuted: register stores the submitted role without looking at it.     *)
(***************************************************************************)
C22_RolesEnumerated ==
  /\ \A i \in DOMAIN users : users[i].role \in Roles
  /\ \A i \in DOMAIN pending : pending[i].role \in Roles

(***************************************************************************)
(* C23  Step A precedes Step B: a verify_email whose token is outside its  *)
(* window or of another purpose, or whose email has no pending             *)
(* registration, and a reset_password whose token is outside its window or *)
(* of another purpose, is redirected to register, respectively             *)
(* forgot_password, with the flash of the failed Step A check, and leaves  *)
(* every account and every pending registration as it was.                 *)
(***************************************************************************)
C23_StepAFirst ==
  [][/\ last'.op = "verify_email"
        => /\ ~InWindow(last'.token, "email-verification")
                => /\ last'.flash \in {VerifyExpired, VerifyInvalid}
                   /\ last'.goto = "register"
                   /\ users' = users /\ pending' = pending
           /\ (/\ InWindow(last'.token, "email-verification")
               /\ WithEmail(pending, last'.token.payload) = {})
                => /\ last'.flash = PendingNotFound
                   /\ last'.goto = "register"
                   /\ users' = users /\ pending' = pending
     /\ (last'.op = "reset_password"
         /\ ~InWindow(last'.token, "password-reset"))
        => /\ last'.flash \in {ResetExpired, ResetInvalid}
           /\ last'.goto = "forgot_password"
           /\ users' = users /\ pending' = pending]_vars

C23_Witness ==
  /\ last.op = "verify_email"
  /\ last.flash = PendingNotFound
  /\ last.goto = "register"
  /\ InWindow(last.token, "email-verification")
  /\ WithEmail(pending, last.token.payload) = {}
  /\ WithEmail(users, last.token.payload) # {}

(***************************************************************************)
(* C24  A register answered PendingNotSaved (the delete or the insert of   *)
(* create_pending_registration raised) is redirected to register, sends no *)
(* mail, and leaves the pending registrations as they were, the one that   *)
(* existed for that email included.                                        *)
(* Refuted: the delete is committed before the insert raises, and nothing  *)
(* puts the deleted row back.                                              *)
(***************************************************************************)
C24_UpsertFailureKeepsPending ==
  [][(last'.op = "register" /\ last'.flash = PendingNotSaved)
     => /\ last'.goto = "register"
        /\ mailbox' = mailbox
        /\ pending' = pending]_vars

(***************************************************************************)
(* C25  When two register requests for the same email have both finished,  *)
(* however the deletes and inserts of their upserts were interleaved, the  *)
(* store holds at most one pending registration for that email.            *)
(* Refuted: both deletes can run before both inserts, and only a store     *)
(* that rejects the second row prevents the duplicate.                     *)
(***************************************************************************)
C25_ConcurrentUpsertUnique ==
  \A s, t \in Slots :
    (/\ s # t
     /\ inflight[s].pc = "done" /\ inflight[t].pc = "done"
     /\ inflight[s].email = inflight[t].email)
    => Cardinality(WithEmail(pending, inflight[s].email)) <= 1

(***************************************************************************)
(* C26  A verify_email creates an account only with the token of the       *)
(* pending registration it resolves, so that the account has the role of   *)
(* the register request that issued the token: a token superseded by a     *)
(* newer registration for the same email creates no account.               *)
(* Refuted: the pending registration is looked up by the token's email,    *)
(* and its stored token is never compared with the presented one.          *)
(***************************************************************************)
C26_SupersededTokenRejected ==
  [][(last'.op = "verify_email" /\ users' # users)
     => \E k \in WithEmail(pending, last'.token.payload) :
          pending[k].token = last'.token]_vars

(***************************************************************************)
(* C27  The Step B checks of verify_email are applied in the order         *)
(* username length, username availability, password confirmation,          *)
(* password policy, and the first failing one is the reported failure: a   *)
(* username shorter than 3 yields InvalidUsername; a taken username of at  *)
(* least 3, its lookup not failing, yields UsernameTaken; PasswordMismatch *)
(* and the policy reasons are reported only for a username of at least 3   *)
(* that was found free, and a policy reason only for matching passwords.   *)
(***************************************************************************)
C27_StepBOrder ==
  [][(/\ last'.op = "verify_email"
      /\ last'.flash \in StepBFailures \cup {AccountNotCreated, RegistrationDone})
     => LET form == last'.form
            short == Len(form.username) < 3
            taken == WithUsername(users, form.username) # {}
            free == ~taken \/ last'.raised
            valid == validate_password(form.password)
        IN /\ short => last'.flash = InvalidUsername
           /\ last'.flash = InvalidUsername => short
           /\ (~short /\ taken /\ ~last'.raised) => last'.flash = UsernameTaken
           /\ last'.flash = UsernameTaken => ~short /\ taken
           /\ (~short /\ ~taken /\ form.password # form.confirm_password)
                => last'.flash = PasswordMismatch
           /\ last'.flash = PasswordMismatch
                => ~short /\ free /\ form.password # form.confirm_password
           /\ (/\ ~short /\ ~taken
               /\ form.password = form.confirm_password /\ ~valid.ok)
                => last'.flash = valid.message
           /\ last'.flash \in PolicyMessages
                => /\ ~short /\ free
                   /\ form.password = form.confirm_password
                   /\ ~valid.ok /\ last'.flash = valid.message]_vars

C27_Witness ==
  /\ last.op = "verify_email"
  /\ last.flash = UsernameTaken
  /\ last.form.username = Bob
  /\ WithUsername(users, Bob) # {}
  /\ WithEmail(pending, last.token.payload) # {}

SatisfiesPolicy(p) ==
  /\ 8 <= Len(p) /\ Len(p) <= 20
  /\ \E i \in DOMAIN p : p[i] \in UpperChars
  /\ \E i \in DOMAIN p : p[i] \in LowerChars
  /\ \E i \in DOMAIN p : p[i] \in DigitChars
  /\ \E i \in DOMAIN p : p[i] \in SpecialChars

(***************************************************************************)
(* C29  The credential of every account is the hash of a password that     *)
(* satisfies the password policy, and a credential is written, by          *)
(* verify_email for a new account or by reset_password for an existing     *)
(* one, only as the hash of the submitted password, that password being    *)
(* identical to its confirmation and satisfying the policy.                *)
(***************************************************************************)
C29_CredentialsFromValidPasswords ==
  [][\A i \in DOMAIN users' :
       /\ \E p \in PasswordInputs :
            /\ users'[i].password_hash = generate_password_hash(p)
            /\ SatisfiesPolicy(p)
       /\ (i \notin DOMAIN users
           \/ users'[i].password_hash # users[i].password_hash)
          => /\ last'.op = IF i \in DOMAIN users THEN "reset_password"
                                                 ELSE "verify_email"
             /\ last'.form.password = last'.form.confirm_password
             /\ SatisfiesPolicy(last'.form.password)
             /\ users'[i].password_hash
                  = generate_password_hash(last'.form.password)]_vars

C29_Witness ==
  /\ last.op = "reset_password"
  /\ last.flash = ResetDone
  /\ last.form.password = PwGood2
  /\ last.form.confirm_password = PwGood2
  /\ \E i \in DOMAIN users :
       /\ users[i].email = last.token.payload
       /\ users[i].password_hash = generate_password_hash(PwGood2)

====
